---- MODULE Spec2Model ----
(***************************************************************************)
(* Storefront backend: order fulfilment (routes/orders, models/Order),     *)
(* admin routes (routes/admin, middleware/auth) and the public catalog     *)
(* query (routes/products, models/Product).                                *)
(*                                                                         *)
(* JavaScript strings that the code builds or parses are sequences of      *)
(* one-character strings, so that formatting and parsing are computed.     *)
(***************************************************************************)
EXTENDS Integers, Sequences, FiniteSets, TLC

\* ------------------------------------------------------------------ bounds
NumCreators == 2      \* concurrent POST /api/orders requests
MaxOrders == 2        \* Order documents constructed in one run
MaxClock == 2         \* values Date.now() takes, 1..MaxClock
MaxProducts == 2      \* Product documents constructed in one run
MaxFiles == 3         \* files attached to one product submission
MaxImages == 4        \* URLs in one product's images list
NumWriters == 2       \* concurrent product create/update/delete requests
NumClients == 2       \* concurrent requests passing ensureDbConnection

\* ----------------------------------------------------------- JS primitives
Undef == "undefined"

DigitChars == <<"0", "1", "2", "3", "4", "5", "6", "7", "8", "9">>

RECURSIVE toString(_)
\* Number.prototype.toString for a non-negative integer
toString(n) ==
  IF n < 10 THEN <<DigitChars[n + 1]>>
  ELSE toString(n \div 10) \o <<DigitChars[(n % 10) + 1]>>

RECURSIVE padStart(_, _, _)
\* String.prototype.padStart with a one-character fill
padStart(s, targetLength, fill) ==
  IF Len(s) >= targetLength THEN s ELSE padStart(<<fill>> \o s, targetLength, fill)

DigitValue(c) == CHOOSE d \in 0..9 : DigitChars[d + 1] = c

IsDigit(c) == \E d \in 0..9 : DigitChars[d + 1] = c

RECURSIVE ParseNat(_, _)
\* value of the decimal digits of s read after acc
ParseNat(s, acc) ==
  IF s = <<>> THEN acc ELSE ParseNat(Tail(s), acc * 10 + DigitValue(Head(s)))

\* a JavaScript number: a finite integer, NaN or +Infinity
Num(v) == [kind |-> "num", val |-> v]
NaN == [kind |-> "nan", val |-> 0]
Infinity == [kind |-> "inf", val |-> 0]

IsNum(x) == x.kind = "num"

RECURSIVE StripLeft(_)
StripLeft(s) == IF s # <<>> /\ Head(s) = " " THEN StripLeft(Tail(s)) ELSE s

RECURSIVE DigitsPrefix(_)
DigitsPrefix(s) ==
  IF s # <<>> /\ IsDigit(Head(s)) THEN <<Head(s)>> \o DigitsPrefix(Tail(s)) ELSE <<>>

\* parseInt(string): leading blanks, an optional sign, the longest run of
\* digits; NaN when there is no digit
parseInt(str) ==
  LET t == StripLeft(str)
      neg == t # <<>> /\ Head(t) = "-"
      u == IF t # <<>> /\ Head(t) \in {"-", "+"} THEN Tail(t) ELSE t
      ds == DigitsPrefix(u)
  IN IF ds = <<>> THEN NaN
     ELSE Num(IF neg THEN 0 - ParseNat(ds, 0) ELSE ParseNat(ds, 0))

\* parseFloat(string) on strings without "." or exponent: the same prefix rule
parseFloat(str) == parseInt(str)

\* Math.ceil(a / b) for integers a >= 0 and b
CeilDiv(a, b) ==
  IF b > 0 THEN (a + b - 1) \div b
  ELSE 0 - (a \div (0 - b))

\* ------------------------------------------------------------ Order model
OrderStatuses == {"Pending", "Dispatched", "Delivered", "Cancelled"}

PadWidth == 4

\* `ORD-${Date.now()}-${(count + 1).toString().padStart(4, '0')}`
FormatOrderNumber(ts, count) ==
  <<"O", "R", "D", "-">> \o toString(ts) \o <<"-">>
    \o padStart(toString(count + 1), PadWidth, "0")

\* ------------------------------------------------------------------ state
VARIABLES
  orders,        \* Order collection: _id -> document
  nextOrderId,   \* next ObjectId handed out by `new Order(...)`
  now,           \* Date.now()
  jwtSecretSet,  \* process.env.JWT_SECRET is set
  cr,            \* per POST /api/orders request: position and locals
  createdLog,    \* history: <<_id, orderNumber, items>> of every insert, in insert order
  last,          \* last request/response of the single-step handlers
  products,      \* Product collection: _id -> document
  nextProductId, \* next ObjectId handed out by `new Product(...)`
  variant,       \* which routes/products file the server mounts
  pw,            \* per product create/update/delete request in flight: its
                 \* position, its files and the uploads resolved so far
  lq,            \* the catalog list request: position, query and result
  env,           \* process.env.NODE_ENV and whether process.env.CLOUDINARY_URL is set
  imageStore,    \* URLs whose image the hosted store or the local disk holds
  fetched,       \* last answer of GET /api/orders/:id
  entry,         \* which server entry file runs
  db,            \* mongoose.connection and the module's isConnected / cachedConnection
  mw,            \* per request: its position in ensureDbConnection
  admins,        \* Admin collection, in insert order
  reg            \* per POST /api/auth/register request: position, body, answer

uploadVars == <<env, imageStore>>
orderVars == <<orders, nextOrderId, cr, createdLog, fetched>>
productVars == <<products, nextProductId, variant, pw, lq, uploadVars>>
adminVars == <<admins, reg>>
serverVars == <<jwtSecretSet, entry, db, mw, adminVars>>

vars == <<orders, nextOrderId, now, jwtSecretSet, cr, createdLog, last,
          products, nextProductId, variant, pw, lq, env, imageStore, fetched,
          entry, db, mw, admins, reg>>

Creators == 1..NumCreators
Writers == 1..NumWriters
Clients == 1..NumClients

\* ----------------------------------------------------- request body values
\* An optional JSON value is <<>> when the field is absent and <<v>> when it
\* is given.  A string field is its character sequence; an absent string and
\* the empty string are both <<>> (the code only tests them for truthiness).
None == <<>>
Some(v) == <<v>>

TruthyString(s) == s # <<>>
TruthyNumber(n) == n # None /\ n[1] # 0

GoodItem == [product |-> 1, productName |-> <<"A">>, price |-> 1,
             selectedSize |-> <<"M">>, selectedColor |-> <<"r">>, quantity |-> 1]
ZeroQtyItem == [GoodItem EXCEPT !.quantity = 0]
NoNameItem == [GoodItem EXCEPT !.productName = <<>>]

CustomerValues ==
  {None} \cup {Some(c) : c \in [name : {<<>>, <<"n">>}, email : {<<>>, <<"e">>},
                                phone : {<<>>, <<"p">>}]}

ShippingValues ==
  {None} \cup {Some(a) : a \in [street : {<<>>, <<"s">>}, city : {<<>>, <<"c">>},
                                state : {<<>>, <<"t">>}, zipCode : {<<>>, <<"z">>}]}

\* items: absent, a non-array JSON value, or an array of items
ItemsValues ==
  {[type |-> "undefined", elems |-> <<>>], [type |-> "object", elems |-> <<>>]}
    \cup {[type |-> "array", elems |-> e] :
            e \in {<<>>, <<GoodItem>>, <<ZeroQtyItem>>, <<NoNameItem>>}}

FullCustomer == Some([name |-> <<"n">>, email |-> <<"e">>, phone |-> <<"p">>])
FullShipping ==
  Some([street |-> <<"s">>, city |-> <<"c">>, state |-> <<"t">>, zipCode |-> <<"z">>])
GoodItems == [type |-> "array", elems |-> <<GoodItem>>]

\* ------------------------------------------------- routes/orders: POST '/'
MsgCustomer == "Customer information is required (name, email, phone)"
MsgShipping == "Complete shipping address is required"
MsgItems == "Order items are required"
MsgTotal == "Total amount must be greater than 0"
MsgCreateFailed == "Failed to create order"
MsgCreated == "Order created successfully"

CustomerOk(c) ==
  c # None /\ TruthyString(c[1].name) /\ TruthyString(c[1].email) /\ TruthyString(c[1].phone)

ShippingOk(a) ==
  /\ a # None
  /\ TruthyString(a[1].street) /\ TruthyString(a[1].city)
  /\ TruthyString(a[1].state) /\ TruthyString(a[1].zipCode)

ItemsOk(items) == items.type = "array" /\ Len(items.elems) # 0

TotalOk(t) == TruthyNumber(t) /\ ~(t[1] <= 0)

\* the same checks with the amount tested first
ValidateOrderRequest_TotalFirst(body) ==
  IF ~TotalOk(body.totalAmount) THEN MsgTotal
  ELSE IF ~CustomerOk(body.customer) THEN MsgCustomer
  ELSE IF ~ShippingOk(body.shippingAddress) THEN MsgShipping
  ELSE IF ~ItemsOk(body.items) THEN MsgItems
  ELSE "ok"

\* the four fail-fast checks of the handler, "ok" when all pass
ValidateOrderRequest(body) ==
  IF ~CustomerOk(body.customer) THEN MsgCustomer
  ELSE IF ~ShippingOk(body.shippingAddress) THEN MsgShipping
  ELSE IF ~ItemsOk(body.items) THEN MsgItems
  ELSE IF ~TotalOk(body.totalAmount) THEN MsgTotal
  ELSE "ok"

Default(v, d) == IF v = None THEN d ELSE v[1]

\* new Order(req.body): schema defaults applied, _id generated
NewOrder(id, body) ==
  [id |-> id,
   orderNumber |-> body.orderNumber,
   status |-> IF body.status = Undef THEN "Pending" ELSE body.status,
   items |-> body.items.elems,
   subtotal |-> body.subtotal,
   shippingCost |-> Default(body.shippingCost, 0),
   tax |-> Default(body.tax, 0),
   totalAmount |-> body.totalAmount]

\* mongoose document validation run by save() before the pre('save') hook
ItemValid(it) ==
  /\ it.productName # <<>>
  /\ it.quantity >= 1

OrderSchemaValid(doc) ==
  /\ \A i \in 1..Len(doc.items) : ItemValid(doc.items[i])
  /\ doc.subtotal # None
  /\ doc.totalAmount # None
  /\ doc.status \in OrderStatuses

EmptyBody ==
  [customer |-> None, shippingAddress |-> None,
   items |-> [type |-> "undefined", elems |-> <<>>],
   subtotal |-> None, shippingCost |-> None, tax |-> None, totalAmount |-> None,
   status |-> Undef, orderNumber |-> <<>>]

NoDoc == NewOrder(0, EmptyBody)

Idle == [pc |-> "idle", body |-> EmptyBody, doc |-> NoDoc, count |-> 0,
         code |-> 0, message |-> Undef]

Respond(p, body, doc, count, code, message) ==
  cr' = [cr EXCEPT ![p] = [pc |-> "idle", body |-> body, doc |-> doc, count |-> count,
                           code |-> code, message |-> message]]

Goto(p, pc, body, doc, count) ==
  cr' = [cr EXCEPT ![p] = [pc |-> pc, body |-> body, doc |-> doc, count |-> count,
                           code |-> 0, message |-> Undef]]

\* request arrives; runs up to the first store round trip of order.save()
OrdersPost(p, body) ==
  /\ cr[p].pc = "idle"
  /\ LET msg == ValidateOrderRequest(body) IN
     IF msg # "ok"
       THEN /\ Respond(p, body, NoDoc, 0, 400, msg)
            /\ UNCHANGED nextOrderId
       ELSE /\ nextOrderId <= MaxOrders
            /\ nextOrderId' = nextOrderId + 1
            /\ LET doc == NewOrder(nextOrderId, body) IN
               IF ~OrderSchemaValid(doc)
                 THEN Respond(p, body, doc, 0, 500, MsgCreateFailed)
               ELSE IF ~TruthyString(doc.orderNumber)
                 THEN Goto(p, "countDocuments", body, doc, 0)
               ELSE Goto(p, "insert", body, doc, 0)
  /\ UNCHANGED <<orders, now, serverVars, createdLog, last, productVars, fetched>>

\* pre('save'): const count = await mongoose.model('Order').countDocuments()
countDocuments(store) == Cardinality(DOMAIN store)

OrderPreSaveCount(p) ==
  /\ cr[p].pc = "countDocuments"
  /\ Goto(p, "preSave", cr[p].body, cr[p].doc, countDocuments(orders))
  /\ UNCHANGED <<orders, nextOrderId, now, serverVars, createdLog, last, productVars, fetched>>

\* pre('save'): this.orderNumber = `ORD-${Date.now()}-...`; next()
OrderPreSaveAssign(p) ==
  /\ cr[p].pc = "preSave"
  /\ Goto(p, "insert", cr[p].body,
          [cr[p].doc EXCEPT !.orderNumber = FormatOrderNumber(now, cr[p].count)],
          cr[p].count)
  /\ UNCHANGED <<orders, nextOrderId, now, serverVars, createdLog, last, productVars, fetched>>

\* the collection without its unique index: no insert is refused
DuplicateKey_NoIndex(store, doc) == FALSE

\* orderNumber: { unique: true } -- the insert fails with E11000 on a duplicate
DuplicateKey(store, doc) ==
  \E id \in DOMAIN store : store[id].orderNumber = doc.orderNumber

InsertDoc(store, doc) ==
  [id \in DOMAIN store \cup {doc.id} |-> IF id = doc.id THEN doc ELSE store[id]]

OrderInsert(p) ==
  /\ cr[p].pc = "insert"
  /\ IF DuplicateKey(orders, cr[p].doc)
       THEN /\ Respond(p, cr[p].body, cr[p].doc, cr[p].count, 500, MsgCreateFailed)
            /\ UNCHANGED <<orders, createdLog>>
       ELSE /\ orders' = InsertDoc(orders, cr[p].doc)
            /\ createdLog' = Append(createdLog, <<cr[p].doc.id, cr[p].doc.orderNumber, cr[p].doc.items>>)
            /\ Goto(p, "findById", cr[p].body, cr[p].doc, cr[p].count)
  /\ UNCHANGED <<nextOrderId, now, serverVars, last, productVars, fetched>>

\* Order.findById(order._id).populate(...).lean(); populatedOrder._id; res.status(201)
OrderFindById(p) ==
  /\ cr[p].pc = "findById"
  /\ IF cr[p].doc.id \in DOMAIN orders
       THEN Respond(p, cr[p].body, cr[p].doc, cr[p].count, 201, MsgCreated)
       ELSE Respond(p, cr[p].body, cr[p].doc, cr[p].count, 500, MsgCreateFailed)
  /\ UNCHANGED <<orders, nextOrderId, now, serverVars, createdLog, last, productVars, fetched>>

\* the millisecond clock advances
Tick ==
  /\ now < MaxClock
  /\ now' = now + 1
  /\ UNCHANGED <<orders, nextOrderId, serverVars, cr, createdLog, last, productVars, fetched>>

\* -------------------------------------------------- middleware/auth.js
Tokens == {"missing", "invalid", "expired", "valid"}

\* verifyToken: 0 stands for next(), otherwise the status it answers with
verifyToken(token, secretSet) ==
  IF token = "missing" THEN 401
  ELSE IF ~secretSet THEN 500
  ELSE IF token = "invalid" THEN 401
  ELSE IF token = "expired" THEN 401
  ELSE 0

\* ------------------------------------- status update and delete of orders
ReqStatuses == OrderStatuses \cup {"Refunded"}

OrdersRouteStatuses == {"Pending", "Dispatched", "Delivered", "Cancelled"}
AdminRouteStatuses == {"Pending", "Dispatched", "Delivered"}

\* an update that replaces the document's other generated fields
SetStatus_Overwrite(doc, status) == [doc EXCEPT !.status = status, !.orderNumber = <<>>]

\* the update document { status } applied by findByIdAndUpdate
SetStatus(doc, status) == [doc EXCEPT !.status = status]

findByIdAndUpdate(store, id, status) ==
  IF id \in DOMAIN store THEN [store EXCEPT ![id] = SetStatus(store[id], status)] ELSE store

findByIdAndDelete(store, id) == [i \in DOMAIN store \ {id} |-> store[i]]

StatusOf(store, id) == IF id \in DOMAIN store THEN store[id].status ELSE Undef

NoRequest == [route |-> "none", token |-> "missing", status |-> Undef, prev |-> Undef, code |-> 0]

Answer(route, token, status, prev, code) ==
  last' = [route |-> route, token |-> token, status |-> status, prev |-> prev, code |-> code]

OrderIds == 1..MaxOrders

\* routes/orders.js  PATCH /:id/status
OrdersPatchStatus(id, status, token) ==
  /\ IF status \notin OrdersRouteStatuses
       THEN /\ Answer("PATCH /orders/:id/status", token, status, StatusOf(orders, id), 400)
            /\ UNCHANGED orders
       ELSE /\ orders' = findByIdAndUpdate(orders, id, status)
            /\ Answer("PATCH /orders/:id/status", token, status, StatusOf(orders, id),
                      IF id \in DOMAIN orders THEN 200 ELSE 404)
  /\ UNCHANGED <<nextOrderId, now, serverVars, cr, createdLog, productVars, fetched>>

\* routes/admin.js  router.use(verifyToken); PATCH /orders/:id/status
AdminOrdersPatchStatus(id, status, token) ==
  /\ LET auth == verifyToken(token, jwtSecretSet) IN
     IF auth # 0
       THEN /\ Answer("PATCH /admin/orders/:id/status", token, status, StatusOf(orders, id), auth)
            /\ UNCHANGED orders
     ELSE IF status \notin AdminRouteStatuses
       THEN /\ Answer("PATCH /admin/orders/:id/status", token, status, StatusOf(orders, id), 400)
            /\ UNCHANGED orders
       ELSE /\ orders' = findByIdAndUpdate(orders, id, status)
            /\ Answer("PATCH /admin/orders/:id/status", token, status, StatusOf(orders, id),
                      IF id \in DOMAIN orders THEN 200 ELSE 404)
  /\ UNCHANGED <<nextOrderId, now, serverVars, cr, createdLog, productVars, fetched>>

\* routes/orders.js  DELETE /:id
OrdersDelete(id, token) ==
  /\ orders' = findByIdAndDelete(orders, id)
  /\ Answer("DELETE /orders/:id", token, Undef, StatusOf(orders, id),
            IF id \in DOMAIN orders THEN 200 ELSE 404)
  /\ UNCHANGED <<nextOrderId, now, serverVars, cr, createdLog, productVars, fetched>>

\* --------------------------------------------------------- Product model
\* The repository holds several routes/products files; the server mounts one.
\*   "legacy"     routes/products.js, first file  (JSON body, no is_active filter)
\*   "local"      routes/products.js, second file (multipart, categories $in)
\*   "cloudinary" unnamed/part_002                (multipart, search, PATCH status)
Variants == {"legacy", "local", "cloudinary"}

ProductIds == 1..MaxProducts

\* a multipart text field that the schema declares [String]: absent, the
\* text as sent, or the array JSON.parse made of it
AbsentField == [kind |-> "absent", val |-> <<>>]
TextField(str) == [kind |-> "string", val |-> str]
ArrayField(a) == [kind |-> "array", val |-> a]

\* Mongoose casting to [String]: an absent path takes the default [], a lone
\* string is wrapped into a one-element array
CastStringArray(f) ==
  IF f.kind = "absent" THEN <<>>
  ELSE IF f.kind = "string" THEN <<f.val>>
  ELSE f.val

\* new Product(data) and the pre('save') hook: created_at defaults to
\* Date.now, updated_at is set to new Date(); images is set by the caller
NewProduct(id, data, ts) ==
  [id |-> id,
   name |-> data.name,
   slug |-> data.slug,
   price |-> data.price,
   categories |-> data.categories,
   tags |-> CastStringArray(data.tags),
   images |-> <<>>,
   is_active |-> IF data.is_active = None THEN TRUE ELSE data.is_active[1],
   created_at |-> ts,
   updated_at |-> ts]

\* slug: { unique: true }
DuplicateSlug(store, id, slug) ==
  \E i \in DOMAIN store : i # id /\ store[i].slug = slug

\* the update document applied by Product.findByIdAndUpdate: given fields only
ApplyUpdate(doc, data) ==
  [doc EXCEPT !.price = IF data.price = None THEN @ ELSE data.price[1],
              !.is_active = IF data.is_active = None THEN @ ELSE data.is_active[1],
              !.slug = IF data.slug = None THEN @ ELSE data.slug[1],
              !.updated_at = IF data.updated_at = None THEN @ ELSE data.updated_at[1]]

\* an update body that gives no field
NoUpdate == [price |-> None, is_active |-> None, slug |-> None, updated_at |-> None]

NoProductRequest ==
  [pc |-> "idle", route |-> "none", id |-> 0, token |-> "missing", data |-> NoUpdate,
   files |-> <<>>, pending |-> {}, ok |-> {}, before |-> <<>>]

\* ------------------------------------------------- routes/products: GET '/'
\* lower-case of the letters used in names and search strings
ToLower(c) == IF c = "A" THEN "a" ELSE IF c = "B" THEN "b" ELSE c

RECURSIVE LowerCase(_)
LowerCase(str) == IF str = <<>> THEN <<>> ELSE <<ToLower(Head(str))>> \o LowerCase(Tail(str))

\* { $regex: pattern, $options: 'i' } for a pattern of plain letters
RegexMatchI(str, pattern) ==
  \E i \in 1..(Len(str) - Len(pattern) + 1) :
    SubSeq(LowerCase(str), i, i + Len(pattern) - 1) = LowerCase(pattern)

\* code-unit order of the characters used in names
CharCode(c) ==
  IF c = "A" THEN 65 ELSE IF c = "B" THEN 66 ELSE IF c = "a" THEN 97 ELSE IF c = "b" THEN 98
  ELSE 0

RECURSIVE StringLeq(_, _)
StringLeq(a, b) ==
  IF a = <<>> THEN TRUE
  ELSE IF b = <<>> THEN FALSE
  ELSE IF Head(a) # Head(b) THEN CharCode(Head(a)) < CharCode(Head(b))
  ELSE StringLeq(Tail(a), Tail(b))

NoFilter == [activeOnly |-> FALSE, categoryEq |-> None, categoriesIn |-> None,
             search |-> None, gte |-> None, lte |-> None]

Truthy(param) == param # None /\ param[1] # <<>>

\* the filter object the handler builds from req.query
BuildFilter(v, q) ==
  [activeOnly |-> v \in {"local", "cloudinary"},
   categoryEq |->
     IF v = "legacy" /\ Truthy(q.category) THEN q.category
     ELSE IF v = "cloudinary" /\ Truthy(q.category) /\ q.category[1] # <<"a", "l", "l">>
       THEN q.category
     ELSE None,
   categoriesIn |-> IF v = "local" /\ Truthy(q.category) THEN q.category ELSE None,
   search |-> IF v = "cloudinary" /\ Truthy(q.search) THEN q.search ELSE None,
   gte |-> IF Truthy(q.minPrice) THEN Some(parseFloat(q.minPrice[1])) ELSE None,
   lte |-> IF Truthy(q.maxPrice) THEN Some(parseFloat(q.maxPrice[1])) ELSE None]

\* casting the filter to the schema: a NaN bound on the Number path `price`
\* is a CastError and the query is rejected
CastFails(f) ==
  \/ f.gte # None /\ ~IsNum(f.gte[1])
  \/ f.lte # None /\ ~IsNum(f.lte[1])

\* $gte without its equality: the bound excluded
PriceGte_Strict(price, bound) == bound.kind = "num" /\ price > bound.val

\* the query engine's $gte / $lte of a stored (finite) price against a bound:
\* a NaN bound matches no finite number
PriceGte(price, bound) == bound.kind = "num" /\ price >= bound.val
PriceLte(price, bound) == bound.kind = "num" /\ price <= bound.val

\* does a stored document satisfy the filter; documents have no `category`
\* and no `description` path (the schema has neither / no body sets it)
Matches(doc, f) ==
  /\ f.activeOnly => doc.is_active
  /\ f.categoryEq = None
  /\ f.categoriesIn # None => \E i \in 1..Len(doc.categories) : doc.categories[i] = f.categoriesIn[1]
  /\ f.search # None => RegexMatchI(doc.name, f.search[1])
  /\ f.gte # None => PriceGte(doc.price, f.gte[1])
  /\ f.lte # None => PriceLte(doc.price, f.lte[1])

Matching(store, f) == {id \in DOMAIN store : Matches(store[id], f)}

\* the count taken under a drifted predicate: the empty filter
ProductCountDocuments_NoFilter(store, f) == Cardinality(DOMAIN store)

\* Product.countDocuments(filter)
ProductCountDocuments(store, f) == Cardinality(Matching(store, f))

\* the sort object: the key compared, "none" when the path is not in the schema
SortKey(v, q) ==
  LET sort == IF q.sort = None THEN <<"n", "e", "w", "e", "s", "t">> ELSE q.sort[1] IN
  IF sort = <<"p", "r", "i", "c", "e", "-", "l", "o", "w">> THEN "price asc"
  ELSE IF sort = <<"p", "r", "i", "c", "e", "-", "h", "i", "g", "h">> THEN "price desc"
  ELSE IF sort = <<"n", "a", "m", "e">> /\ v = "cloudinary" THEN "name asc"
  ELSE IF v = "local" THEN "created_at desc"
  ELSE "none"

InOrder(a, b, key) ==
  IF key = "price asc" THEN a.price <= b.price
  ELSE IF key = "price desc" THEN a.price >= b.price
  ELSE IF key = "name asc" THEN StringLeq(a.name, b.name)
  ELSE IF key = "created_at desc" THEN a.created_at >= b.created_at
  ELSE TRUE

\* the orders in which find(filter).sort(sortObj) may deliver the matching
\* documents: any order that respects the key (ties are not ordered by the store)
SortedOrders(store, f, key) ==
  LET S == Matching(store, f)
      n == Cardinality(S)
  IN {o \in [1..n -> S] :
        /\ \A i \in 1..n : \A j \in 1..n : i # j => o[i] # o[j]
        /\ \A i \in 1..n : \A j \in 1..n : i < j => InOrder(store[o[i]], store[o[j]], key)}

DefaultPage == 1
DefaultLimit == 12

PageOf(q) == IF q.page = None THEN Num(DefaultPage) ELSE parseInt(q.page[1])
LimitOf(q) == IF q.limit = None THEN Num(DefaultLimit) ELSE parseInt(q.limit[1])

\* (parseInt(page) - 1) * parseInt(limit)
SkipOf(q) ==
  IF IsNum(PageOf(q)) /\ IsNum(LimitOf(q))
    THEN Num((PageOf(q).val - 1) * LimitOf(q).val)
    ELSE NaN

\* .limit(parseInt(limit)): the limit the cursor is given
CursorLimit(q) == LimitOf(q)

\* the store rejects a skip or limit that is not a number or a negative skip
CursorFails(q) == ~IsNum(SkipOf(q)) \/ SkipOf(q).val < 0

Min(a, b) == IF a < b THEN a ELSE b

\* .skip(skip).limit(limit) applied to the delivered order; limit 0 is no
\* limit and a negative limit is its absolute value
Slice(o, skip, limit) ==
  LET n == Len(o)
      lim == IF limit = 0 THEN n ELSE IF limit < 0 THEN 0 - limit ELSE limit
  IN SubSeq(o, skip + 1, Min(n, skip + lim))

\* the quotient rounded down instead of up
TotalPages_Floor(total, limit) ==
  IF ~IsNum(limit) THEN NaN
  ELSE IF limit.val = 0 THEN (IF total = 0 THEN NaN ELSE Infinity)
  ELSE Num(total \div limit.val)

\* Math.ceil(total / parseInt(limit))
TotalPages(total, limit) ==
  IF ~IsNum(limit) THEN NaN
  ELSE IF limit.val = 0 THEN (IF total = 0 THEN NaN ELSE Infinity)
  ELSE Num(CeilDiv(total, limit.val))

\* a < b on JavaScript numbers
JsLess(a, b) ==
  IF a.kind = "nan" \/ b.kind = "nan" THEN FALSE
  ELSE IF a.kind = "inf" THEN FALSE
  ELSE IF b.kind = "inf" THEN TRUE
  ELSE a.val < b.val

EmptyQuery == [category |-> None, search |-> None, minPrice |-> None, maxPrice |-> None,
               sort |-> None, page |-> None, limit |-> None]

IdleList == [pc |-> "idle", q |-> EmptyQuery, filter |-> NoFilter, code |-> 0,
             page |-> <<>>, total |-> 0, totalPages |-> Num(0), currentPage |-> Num(0),
             hasNext |-> FALSE, hasPrev |-> FALSE]

\* request arrives: filter and sort are built, find(...).lean() is answered
ProductsGet(q) ==
  /\ lq.pc = "idle"
  /\ LET f == BuildFilter(variant, q) IN
     IF CursorFails(q) \/ CastFails(f)
       THEN lq' = [IdleList EXCEPT !.q = q, !.filter = f, !.code = 500]
       ELSE \E o \in SortedOrders(products, f, SortKey(variant, q)) :
              lq' = [IdleList EXCEPT
                       !.pc = "count", !.q = q, !.filter = f,
                       !.page = [i \in 1..Len(Slice(o, SkipOf(q).val, CursorLimit(q).val)) |->
                                   products[Slice(o, SkipOf(q).val, CursorLimit(q).val)[i]]]]
  /\ UNCHANGED <<orderVars, uploadVars, now, serverVars, last, products, nextProductId, variant, pw>>

\* countDocuments(filter) is answered; pagination is computed; res.json
ProductsGetCount ==
  /\ lq.pc = "count"
  /\ LET total == ProductCountDocuments(products, lq.filter)
         totalPages == TotalPages(total, LimitOf(lq.q))
     IN lq' = [lq EXCEPT !.pc = "idle", !.code = 200, !.total = total,
                         !.totalPages = totalPages,
                         !.currentPage = PageOf(lq.q),
                         !.hasNext = JsLess(PageOf(lq.q), totalPages),
                         !.hasPrev = JsLess(Num(1), PageOf(lq.q))]
  /\ UNCHANGED <<orderVars, uploadVars, now, serverVars, last, products, nextProductId, variant, pw>>

\* ------------------------------------- routes/products: POST, PUT, DELETE
ProductAnswer(route, token, code) ==
  last' = [route |-> route, token |-> token, status |-> Undef, prev |-> Undef, code |-> code]

\* NODE_ENV and CLOUDINARY_URL of the deployment
Hosted == [NODE_ENV |-> "production", CLOUDINARY_URL |-> TRUE]
Envs == [NODE_ENV : {"production", "development"}, CLOUDINARY_URL : BOOLEAN]

\* JSON.parse(text) for texts that are an array of plain strings or are
\* malformed (no white space, no escapes): the array, or the SyntaxError
Quote == "\""
JsonFail == [ok |-> FALSE, val |-> <<>>]

RECURSIVE IndexOf(_, _, _)
IndexOf(str, c, i) ==
  IF i > Len(str) THEN 0 ELSE IF str[i] = c THEN i ELSE IndexOf(str, c, i + 1)

RECURSIVE JsonElems(_)
JsonElems(str) ==
  IF Len(str) < 2 \/ str[1] # Quote THEN JsonFail
  ELSE LET j == IndexOf(str, Quote, 2) IN
       IF j = 0 THEN JsonFail
       ELSE LET elem == SubSeq(str, 2, j - 1)
                rest == SubSeq(str, j + 1, Len(str))
            IN IF rest = <<>> THEN [ok |-> TRUE, val |-> <<elem>>]
               ELSE IF Head(rest) # "," THEN JsonFail
               ELSE LET r == JsonElems(Tail(rest)) IN
                    IF r.ok THEN [ok |-> TRUE, val |-> <<elem>> \o r.val] ELSE JsonFail

JsonParse(str) ==
  IF Len(str) < 2 \/ str[1] # "[" \/ str[Len(str)] # "]" THEN JsonFail
  ELSE IF Len(str) = 2 THEN [ok |-> TRUE, val |-> <<>>]
  ELSE JsonElems(SubSeq(str, 2, Len(str) - 1))

\* fieldsToParseJSON.forEach: a non-empty text that parses is replaced by its
\* value; when JSON.parse throws, the warning is logged and the text stays
ParseJSONFields(data) ==
  IF data.tags.kind = "string" /\ data.tags.val # <<>> /\ JsonParse(data.tags.val).ok
    THEN [data EXCEPT !.tags = ArrayField(JsonParse(data.tags.val).val)]
    ELSE data

\* the object handed to new Product(...)
ProductData(v, data) ==
  IF v = "local" THEN ParseJSONFields(data)
  ELSE IF v = "cloudinary" THEN [data EXCEPT !.is_active = Some(TRUE)]
  ELSE data

\* are the attached files sent to the hosted store, one awaited call each
AwaitsUploads(v, e, files) ==
  /\ files # <<>>
  /\ \/ v = "cloudinary"
     \/ v = "local" /\ e.NODE_ENV = "production" /\ e.CLOUDINARY_URL

\* where the URL of an attached file comes from: the hosted store's answer,
\* the file multer wrote to ../images/, or the placeholder path that
\* uploadToCloudStorage returns when CLOUDINARY_URL is not set
UrlKind(v, e) ==
  IF v = "cloudinary" THEN "hosted"
  ELSE IF e.NODE_ENV # "production" THEN "disk"
  ELSE IF e.CLOUDINARY_URL THEN "hosted"
  ELSE "placeholder"

\* the URLs of the files in `ok`, in the order the files were attached
UrlsOf(kind, files, ok) ==
  LET kept == SelectSeq(files, LAMBDA f : f \in ok)
  IN [i \in 1..Len(kept) |-> <<kind, kept[i]>>]

AllOf(files) == {files[i] : i \in 1..Len(files)}

\* multer.diskStorage has written every attached file before the handler runs
DiskWrites(v, e, files) ==
  IF v = "local" /\ e.NODE_ENV # "production"
    THEN {<<"disk", f>> : f \in AllOf(files)} ELSE {}

\* new Product(...); product.save(); the answer of POST /
CreateProduct(data, images, token) ==
  /\ nextProductId' = nextProductId + 1
  /\ LET doc == [NewProduct(nextProductId, ProductData(variant, data), now)
                   EXCEPT !.images = images]
     IN IF DuplicateSlug(products, doc.id, doc.slug)
          THEN /\ ProductAnswer("POST /products", token,
                                IF variant = "cloudinary" THEN 500 ELSE 400)
               /\ UNCHANGED products
          ELSE /\ products' = InsertDoc(products, doc)
               /\ ProductAnswer("POST /products", token, 201)

\* POST /.  Without files, on local disk, or without CLOUDINARY_URL nothing is
\* awaited before product.save(); otherwise the uploads are awaited first.
ProductsPost(w, data, files, token) ==
  /\ nextProductId <= MaxProducts
  /\ files # <<>> => (pw[w].pc = "idle" /\ variant # "legacy")
  /\ IF AwaitsUploads(variant, env, files)
       THEN /\ pw' = [pw EXCEPT ![w] = [pc |-> "upload", route |-> "POST /products", id |-> 0,
                      token |-> token, data |-> data, files |-> files,
                      pending |-> AllOf(files), ok |-> {}, before |-> <<>>]]
            /\ UNCHANGED <<products, nextProductId, last, imageStore>>
       ELSE /\ CreateProduct(data, UrlsOf(UrlKind(variant, env), files, AllOf(files)), token)
            /\ imageStore' = imageStore \cup DiskWrites(variant, env, files)
            /\ UNCHANGED pw
  /\ UNCHANGED <<orderVars, env, now, serverVars, variant, lq>>

\* one awaited upload resolves.  cloudinary: the files go one after another
\* and a failure is logged and skipped.  local: Promise.all has started them
\* all, and the first rejection ends the request in the catch block (500).
ProductsUpload(w, k, success) ==
  /\ pw[w].pc = "upload"
  /\ k \in pw[w].pending
  /\ variant = "cloudinary" => \A j \in pw[w].pending : k <= j
  /\ LET rest == pw[w].pending \ {k}
         pc == IF rest # {} THEN "upload"
               ELSE IF pw[w].route = "POST /products" THEN "save" ELSE "update"
     IN IF success
          THEN /\ imageStore' = imageStore \cup {<<"hosted", k>>}
               /\ pw' = [pw EXCEPT ![w].pending = rest, ![w].ok = @ \cup {k}, ![w].pc = pc]
               /\ UNCHANGED last
          ELSE IF variant = "cloudinary"
            THEN /\ pw' = [pw EXCEPT ![w].pending = rest, ![w].pc = pc]
                 /\ UNCHANGED <<imageStore, last>>
            ELSE /\ ProductAnswer(pw[w].route, pw[w].token, 500)
                 /\ pw' = [pw EXCEPT ![w] = NoProductRequest]
                 /\ UNCHANGED imageStore
  /\ UNCHANGED <<orderVars, env, now, serverVars, products, nextProductId, variant, lq>>

\* POST / after its uploads: new Product(...); product.save()
ProductsPostSave(w) ==
  /\ pw[w].pc = "save"
  /\ CreateProduct(pw[w].data, UrlsOf("hosted", pw[w].files, pw[w].ok), pw[w].token)
  /\ pw' = [pw EXCEPT ![w] = NoProductRequest]
  /\ UNCHANGED <<orderVars, uploadVars, now, serverVars, variant, lq>>

UpdateById(store, id, data) ==
  IF id \in DOMAIN store THEN [store EXCEPT ![id] = ApplyUpdate(store[id], data)] ELSE store

\* Product.findByIdAndUpdate(id, { ...productData, images }) and the answer of
\* PUT /:id; `images` is None when the update document has no images path
PutWrite(id, data, images, token) ==
  IF id \notin DOMAIN products
    THEN /\ ProductAnswer("PUT /products/:id", token,
                          IF variant = "cloudinary" THEN 200 ELSE 404)
         /\ UNCHANGED products
    ELSE LET doc == [ApplyUpdate(products[id], data)
                       EXCEPT !.images = IF images = None THEN @ ELSE images[1]]
         IN IF DuplicateSlug(products, id, doc.slug)
              THEN /\ ProductAnswer("PUT /products/:id", token, 500)
                   /\ UNCHANGED products
              ELSE /\ products' = [products EXCEPT ![id] = doc]
                   /\ ProductAnswer("PUT /products/:id", token, 200)

\* PUT /:id.  legacy, local: Product.findByIdAndUpdate alone, after the
\* uploads when files are sent to the hosted store.
\* cloudinary: Product.findById first, the update is a second store call.
ProductsPut(w, id, data, files, token) ==
  /\ pw[w].pc = "idle"
  /\ files # <<>> => variant # "legacy"
  /\ IF variant = "cloudinary"
       THEN IF id \in DOMAIN products
              THEN /\ pw' = [pw EXCEPT ![w] = [pc |-> IF files = <<>> THEN "update" ELSE "upload",
                             route |-> "PUT /products/:id", id |-> id, token |-> token,
                             data |-> data, files |-> files, pending |-> AllOf(files),
                             ok |-> {}, before |-> products[id].images]]
                   /\ UNCHANGED <<products, last, imageStore>>
              ELSE /\ ProductAnswer("PUT /products/:id", token, 404)
                   /\ UNCHANGED <<products, pw, imageStore>>
       ELSE IF AwaitsUploads(variant, env, files)
         THEN /\ pw' = [pw EXCEPT ![w] = [pc |-> "upload", route |-> "PUT /products/:id", id |-> id,
                        token |-> token, data |-> data, files |-> files,
                        pending |-> AllOf(files), ok |-> {}, before |-> <<>>]]
              /\ UNCHANGED <<products, last, imageStore>>
         ELSE /\ PutWrite(id, data,
                          IF files = <<>> THEN None
                          ELSE Some(UrlsOf(UrlKind(variant, env), files, AllOf(files))),
                          token)
              /\ imageStore' = imageStore \cup DiskWrites(variant, env, files)
              /\ UNCHANGED pw
  /\ UNCHANGED <<orderVars, env, now, serverVars, nextProductId, variant, lq>>

\* PUT /:id, the update after the awaited calls.  cloudinary writes the images
\* it read with findById followed by the new URLs; local writes the new URLs.
ProductsPutWrite(w) ==
  /\ pw[w].pc = "update"
  /\ PutWrite(pw[w].id, pw[w].data,
              IF variant = "cloudinary"
                THEN Some(pw[w].before \o UrlsOf("hosted", pw[w].files, pw[w].ok))
                ELSE Some(UrlsOf("hosted", pw[w].files, pw[w].ok)),
              pw[w].token)
  /\ pw' = [pw EXCEPT ![w] = NoProductRequest]
  /\ UNCHANGED <<orderVars, uploadVars, now, serverVars, nextProductId, variant, lq>>

\* DELETE /:id.  legacy, local: Product.findByIdAndDelete alone.
\* cloudinary: Product.findById first, the delete is a second store call.
ProductsDelete(w, id, token) ==
  /\ pw[w].pc = "idle"
  /\ IF variant = "cloudinary"
       THEN IF id \in DOMAIN products
              THEN /\ pw' = [pw EXCEPT ![w] = [NoProductRequest EXCEPT !.pc = "delete", !.id = id,
                                                      !.route = "DELETE /products/:id",
                                                      !.token = token]]
                   /\ UNCHANGED <<products, last>>
              ELSE /\ ProductAnswer("DELETE /products/:id", token, 404)
                   /\ UNCHANGED <<products, pw>>
       ELSE /\ products' = findByIdAndDelete(products, id)
            /\ ProductAnswer("DELETE /products/:id", token,
                             IF id \in DOMAIN products THEN 200 ELSE 404)
            /\ UNCHANGED pw
  /\ UNCHANGED <<orderVars, uploadVars, now, serverVars, nextProductId, variant, lq>>

\* cloudinary DELETE: Product.findByIdAndDelete(...); res.json({ success: true })
ProductsDeleteWrite(w) ==
  /\ pw[w].pc = "delete"
  /\ products' = findByIdAndDelete(products, pw[w].id)
  /\ ProductAnswer("DELETE /products/:id", pw[w].token, 200)
  /\ pw' = [pw EXCEPT ![w] = NoProductRequest]
  /\ UNCHANGED <<orderVars, uploadVars, now, serverVars, nextProductId, variant, lq>>

\* cloudinary PATCH /:id/status: findByIdAndUpdate(id, { is_active })
ProductsPatchStatus(id, isActive, token) ==
  /\ variant = "cloudinary"
  /\ products' = UpdateById(products, id, [NoUpdate EXCEPT !.is_active = isActive])
  /\ ProductAnswer("PATCH /products/:id/status", token,
                   IF id \in DOMAIN products THEN 200 ELSE 404)
  /\ UNCHANGED <<orderVars, uploadVars, now, serverVars, nextProductId, variant, pw, lq>>

\* ------------------------------------------------ routes/orders: GET '/:id'
NoFetch == [code |-> 0, id |-> 0, items |-> <<>>]

\* populate with the live product's name and price written over the item's
PopulateItem_Live(it, store) ==
  IF it.product \in DOMAIN store
    THEN [it EXCEPT !.product = <<store[it.product]>>,
                    !.productName = store[it.product].name,
                    !.price = store[it.product].price]
    ELSE [it EXCEPT !.product = <<>>]

\* .populate('items.product'): the reference is replaced by the Product
\* document it names, or by null (<<>>) when there is none; the item's own
\* paths are returned as stored
PopulateItem(it, store) ==
  [it EXCEPT !.product = IF it.product \in DOMAIN store THEN <<store[it.product]>> ELSE <<>>]

\* Order.findById(id).populate('items.product').lean(); 404 or the order
OrdersGetById(id) ==
  /\ fetched' =
       IF id \in DOMAIN orders
         THEN [code |-> 200, id |-> id,
               items |-> [i \in 1..Len(orders[id].items) |->
                            PopulateItem(orders[id].items[i], products)]]
         ELSE [NoFetch EXCEPT !.code = 404, !.id = id]
  /\ UNCHANGED <<orders, nextOrderId, cr, createdLog, now, serverVars, last, productVars>>

\* ------------------------------------- server: connectDB, ensureDbConnection
\* The repository holds three versions of the connection code.
\*   "server-1"  server.js, first file   (connects when readyState is not 1)
\*   "server-2"  server.js, second file  (disconnects a stale connection first)
\*   "index"     index.js                (the same, with cachedConnection)
Entries == {"server-1", "server-2", "index"}

\* mongoose.connection.readyState
Disconnected == 0
Connected == 1
Connecting == 2
Disconnecting == 3

\* isConnected (cachedConnection in index.js) is false, nothing is open;
\* opening counts the driver connects started and not yet answered
NoConnection ==
  [readyState |-> Disconnected, isConnected |-> FALSE, opening |-> 0,
   closing |-> FALSE, closeOnOpen |-> FALSE]

NoClient == [pc |-> "idle", code |-> 0]

At(c, pc, code) == mw' = [mw EXCEPT ![c] = [pc |-> pc, code |-> code]]

\* await mongoose.connect(uri, options): a connection that is connected is
\* returned as it is, one that is connecting is awaited; otherwise a new
\* driver connect is started
MongooseConnect(c) ==
  /\ db' = IF db.readyState \in {Connecting, Connected} THEN db
           ELSE [db EXCEPT !.readyState = Connecting, !.opening = @ + 1]
  /\ At(c, IF db.readyState = Connected THEN "connected" ELSE "awaitConnect", 0)

\* await mongoose.disconnect(): an open connection starts closing; one that
\* is connecting is closed as soon as it has opened
MongooseDisconnect(c) ==
  /\ db' = IF db.readyState = Connected
             THEN [db EXCEPT !.readyState = Disconnecting, !.closing = TRUE]
           ELSE IF db.readyState = Connecting THEN [db EXCEPT !.closeOnOpen = TRUE]
           ELSE db
  /\ At(c, "awaitDisconnect", 0)

\* the early return of connectDB: a good connection is kept
GoodConnection == db.isConnected /\ db.readyState = Connected

\* a request enters ensureDbConnection and runs connectDB up to its first await
ensureDbConnection(c) ==
  /\ mw[c].pc = "idle"
  /\ IF GoodConnection
       THEN At(c, "route", 0) /\ UNCHANGED db
     ELSE IF entry = "server-1"
       THEN IF db.readyState # Connected
              THEN MongooseConnect(c)
              ELSE At(c, "route", 0) /\ UNCHANGED db
     ELSE IF db.readyState # Disconnected
       THEN MongooseDisconnect(c)
       ELSE MongooseConnect(c)
  /\ UNCHANGED <<orderVars, productVars, adminVars, now, last, jwtSecretSet, entry>>

\* the driver answers the connect in flight; every request awaiting it resumes
ConnectAnswered(ok) ==
  /\ db.readyState = Connecting
  /\ db.opening > 0
  /\ db' = [db EXCEPT !.opening = @ - 1,
                      !.readyState = IF ~ok THEN Disconnected
                                     ELSE IF db.closeOnOpen THEN Disconnecting
                                     ELSE Connected,
                      !.closing = IF ok /\ db.closeOnOpen THEN TRUE ELSE @,
                      !.closeOnOpen = FALSE]
  /\ mw' = [c \in Clients |->
              IF mw[c].pc = "awaitConnect"
                THEN [pc |-> IF ok THEN "connected" ELSE "connectFailed", code |-> 0]
                ELSE mw[c]]
  /\ UNCHANGED <<orderVars, productVars, adminVars, now, last, jwtSecretSet, entry>>

\* after the await: isConnected = true (cachedConnection = ...); next()
connectDB_Resumes(c) ==
  /\ mw[c].pc = "connected"
  /\ db' = [db EXCEPT !.isConnected = TRUE]
  /\ At(c, "route", 0)
  /\ UNCHANGED <<orderVars, productVars, adminVars, now, last, jwtSecretSet, entry>>

\* catch: isConnected = false (cachedConnection = null); throw; 503
connectDB_Fails(c) ==
  /\ mw[c].pc = "connectFailed"
  /\ db' = [db EXCEPT !.isConnected = FALSE]
  /\ At(c, "idle", 503)
  /\ UNCHANGED <<orderVars, productVars, adminVars, now, last, jwtSecretSet, entry>>

\* the close in progress ends
DisconnectAnswered ==
  /\ db.closing
  /\ db' = [db EXCEPT !.closing = FALSE,
                      !.readyState = IF @ = Disconnecting THEN Disconnected ELSE @]
  /\ mw' = [c \in Clients |->
              IF mw[c].pc = "awaitDisconnect" THEN [pc |-> "disconnected", code |-> 0]
              ELSE mw[c]]
  /\ UNCHANGED <<orderVars, productVars, adminVars, now, last, jwtSecretSet, entry>>

\* an awaited disconnect with nothing left to close resolves
DisconnectResolved(c) ==
  /\ mw[c].pc = "awaitDisconnect"
  /\ ~db.closing /\ ~db.closeOnOpen
  /\ At(c, "disconnected", 0)
  /\ UNCHANGED <<orderVars, productVars, adminVars, now, last, jwtSecretSet, entry, db>>

\* after await mongoose.disconnect(): mongoose.connect(...)
connectDB_Reconnects(c) ==
  /\ mw[c].pc = "disconnected"
  /\ MongooseConnect(c)
  /\ UNCHANGED <<orderVars, productVars, adminVars, now, last, jwtSecretSet, entry>>

\* the route handler behind the middleware has answered
RouteAnswered(c) ==
  /\ mw[c].pc = "route"
  /\ At(c, "idle", 200)
  /\ UNCHANGED <<orderVars, productVars, adminVars, now, last, jwtSecretSet, entry, db>>

\* ------------------------------------------- routes/auth: POST /register
NoRegistration ==
  [pc |-> "idle", body |-> [username |-> <<>>, password |-> <<>>, email |-> <<>>], code |-> 0]

\* Admin.findOne({ $or: [{ username }, { email }] })
AdminExists(store, body) ==
  \E i \in 1..Len(store) :
    store[i].username = body.username \/ store[i].email = body.email

\* the unique indexes of the Admin collection refuse the insert (E11000)
AdminDuplicateKey(store, doc) ==
  \E i \in 1..Len(store) :
    store[i].username = doc.username \/ store[i].email = doc.email

\* request arrives: the required-fields check, then Admin.findOne is awaited
AuthRegister(c, body) ==
  /\ reg[c].pc = "idle"
  /\ reg' = [reg EXCEPT ![c] =
       IF ~TruthyString(body.username) \/ ~TruthyString(body.password)
            \/ ~TruthyString(body.email)
         THEN [pc |-> "idle", body |-> body, code |-> 400]
         ELSE [pc |-> "findOne", body |-> body, code |-> 0]]
  /\ UNCHANGED <<orderVars, productVars, now, last, jwtSecretSet, entry, db, mw, admins>>

\* findOne is answered: 400 when an admin has the username or the email,
\* otherwise new Admin(...) and admin.save() is awaited
AuthRegisterFound(c) ==
  /\ reg[c].pc = "findOne"
  /\ reg' = [reg EXCEPT ![c] =
       IF AdminExists(admins, reg[c].body)
         THEN [reg[c] EXCEPT !.pc = "idle", !.code = 400]
         ELSE [reg[c] EXCEPT !.pc = "save"]]
  /\ UNCHANGED <<orderVars, productVars, now, last, jwtSecretSet, entry, db, mw, admins>>

\* admin.save() is answered: 201, or the catch block, where a duplicate key
\* error is not a ValidationError and is answered 500 'Registration failed'
AuthRegisterSave(c) ==
  /\ reg[c].pc = "save"
  /\ LET doc == [username |-> reg[c].body.username, email |-> reg[c].body.email] IN
     IF AdminDuplicateKey(admins, doc)
       THEN /\ reg' = [reg EXCEPT ![c] = [reg[c] EXCEPT !.pc = "idle", !.code = 500]]
            /\ UNCHANGED admins
       ELSE /\ admins' = Append(admins, doc)
            /\ reg' = [reg EXCEPT ![c] = [reg[c] EXCEPT !.pc = "idle", !.code = 201]]
  /\ UNCHANGED <<orderVars, productVars, now, last, jwtSecretSet, entry, db, mw>>

\* ------------------------------------------------------- specifications
\* bodies of concurrent order creations: valid requests with distinct prices
RaceBodies ==
  {[customer |-> FullCustomer, shippingAddress |-> FullShipping, items |-> GoodItems,
    subtotal |-> Some(1), shippingCost |-> None, tax |-> None, totalAmount |-> Some(1),
    status |-> Undef, orderNumber |-> <<>>]}

\* the connection code of index.js, nothing connected yet
InitServer ==
  /\ entry = "index"
  /\ db = NoConnection
  /\ mw = [c \in Clients |-> NoClient]
  /\ admins = <<>>
  /\ reg = [c \in Clients |-> NoRegistration]

\* empty collections, no request in flight
InitStores ==
  /\ InitServer
  /\ orders = <<>>
  /\ nextOrderId = 1
  /\ now = 1
  /\ cr = [p \in Creators |-> Idle]
  /\ createdLog = <<>>
  /\ last = NoRequest
  /\ products = <<>>
  /\ nextProductId = 1
  /\ pw = [w \in Writers |-> NoProductRequest]
  /\ lq = IdleList
  /\ imageStore = {}
  /\ fetched = NoFetch

\* JWT_SECRET configured as the deployment guide requires
Init == InitStores /\ jwtSecretSet = TRUE /\ variant = "cloudinary" /\ env = Hosted

\* either setting of JWT_SECRET
InitEnv == InitStores /\ jwtSecretSet \in BOOLEAN /\ variant = "cloudinary" /\ env = Hosted

\* any of the routes/products files mounted
InitCatalog == InitStores /\ jwtSecretSet = TRUE /\ variant \in Variants /\ env = Hosted

InitAuth == InitStores /\ jwtSecretSet \in BOOLEAN /\ variant = "local" /\ env = Hosted

\* concurrent order creations, deletions and the clock
NextRace ==
  \/ \E p \in Creators, body \in RaceBodies : OrdersPost(p, body)
  \/ \E p \in Creators : OrderPreSaveCount(p)
  \/ \E p \in Creators : OrderPreSaveAssign(p)
  \/ \E p \in Creators : OrderInsert(p)
  \/ \E p \in Creators : OrderFindById(p)
  \/ \E id \in OrderIds : OrdersDelete(id, "valid")
  \/ Tick

SpecRace == Init /\ [][NextRace]_vars

\* one order at a time through its lifecycle, operator authenticated
NextLife ==
  \/ \E body \in RaceBodies : OrdersPost(1, body)
  \/ OrderPreSaveCount(1)
  \/ OrderPreSaveAssign(1)
  \/ OrderInsert(1)
  \/ OrderFindById(1)
  \/ \E id \in OrderIds, status \in ReqStatuses : OrdersPatchStatus(id, status, "valid")
  \/ \E id \in OrderIds, status \in ReqStatuses : AdminOrdersPatchStatus(id, status, "valid")
  \/ \E id \in OrderIds : OrdersDelete(id, "valid")

SpecLife == InitEnv /\ [][NextLife]_vars

\* bodies of the order-creation request under validation: every combination of
\* passing and failing values of the four checked fields, and of the amounts
CreateBodies ==
  [customer : CustomerValues, shippingAddress : ShippingValues, items : ItemsValues,
   subtotal : {Some(1)}, shippingCost : {None}, tax : {None},
   totalAmount : {None, Some(0), Some(-1), Some(1)},
   status : {Undef}, orderNumber : {<<>>}]
  \cup
  [customer : {FullCustomer}, shippingAddress : {FullShipping},
   items : {it \in ItemsValues : it.type = "array"},
   subtotal : {None, Some(1), Some(2)}, shippingCost : {None, Some(1)}, tax : {None, Some(1)},
   totalAmount : {Some(1), Some(2), Some(3)},
   status : {Undef}, orderNumber : {<<>>, <<"X">>}]

\* one request under validation (creator 1) beside ordinary creations (creator 2)
NextCreate ==
  \/ cr[1] = Idle /\ \E body \in CreateBodies : OrdersPost(1, body)
  \/ \E body \in RaceBodies : OrdersPost(2, body)
  \/ \E p \in {1, 2} : OrderPreSaveCount(p)
  \/ \E p \in {1, 2} : OrderPreSaveAssign(p)
  \/ \E p \in {1, 2} : OrderInsert(p)
  \/ \E p \in {1, 2} : OrderFindById(p)

SpecCreate == Init /\ [][NextCreate]_vars

\* ------------------------------------------------------ catalog requests
Str_c == <<"c">>
Str_s1 == <<"s", "1">>
Str_s2 == <<"s", "2">>

ProductBodies ==
  {[name |-> <<"a", "b">>, slug |-> Str_s1, price |-> 1, categories |-> <<Str_c>>,
    tags |-> AbsentField, is_active |-> None],
   [name |-> <<"B">>, slug |-> Str_s2, price |-> 2, categories |-> <<>>,
    tags |-> AbsentField, is_active |-> Some(FALSE)]}

PutBodies ==
  {[NoUpdate EXCEPT !.price = Some(2)], [NoUpdate EXCEPT !.is_active = Some(FALSE)]}

Queries ==
  [category : {None, Some(Str_c)},
   search : {None, Some(<<"b">>)},
   minPrice : {None, Some(<<"2">>)},
   maxPrice : {None, Some(<<"1">>)},
   sort : {None, Some(<<"p", "r", "i", "c", "e", "-", "l", "o", "w">>), Some(<<"n", "a", "m", "e">>)},
   page : {None, Some(<<"2">>)},
   limit : {None, Some(<<"1">>)}]

\* product writes by an authenticated operator, then one catalog list request
\* against the store they left (no write is in flight during the request)
NextCatalog ==
  \/ lq = IdleList /\ \E data \in ProductBodies : ProductsPost(1, data, <<>>, "valid")
  \/ lq = IdleList /\ \E id \in ProductIds, data \in PutBodies : ProductsPut(1, id, data, <<>>, "valid")
  \/ lq = IdleList /\ ProductsPutWrite(1)
  \/ lq = IdleList /\ \E id \in ProductIds : ProductsDelete(1, id, "valid")
  \/ lq = IdleList /\ ProductsDeleteWrite(1)
  \/ lq = IdleList /\ \E id \in ProductIds, a \in {Some(TRUE), Some(FALSE)} :
                        ProductsPatchStatus(id, a, "valid")
  \/ lq = IdleList /\ pw[1].pc = "idle" /\ \E q \in Queries : ProductsGet(q)
  \/ ProductsGetCount

SpecCatalog == InitCatalog /\ [][NextCatalog]_vars

\* --------------------------------------------- price bounds and page size
Str_s3 == <<"s", "3">>

\* products priced 0 and 1, one of them inactive
PriceBodies ==
  {[name |-> <<"a">>, slug |-> Str_s1, price |-> 0, categories |-> <<>>,
    tags |-> AbsentField, is_active |-> None],
   [name |-> <<"b">>, slug |-> Str_s2, price |-> 1, categories |-> <<>>,
    tags |-> AbsentField, is_active |-> None],
   [name |-> <<"A">>, slug |-> Str_s3, price |-> 0, categories |-> <<>>,
    tags |-> AbsentField, is_active |-> Some(FALSE)]}

\* well-formed, malformed and empty price bounds; a limit above 100
PriceQueries ==
  [category : {None},
   search : {None},
   minPrice : {None, Some(<<>>), Some(<<"0">>), Some(<<"1">>), Some(<<"1", "x">>), Some(<<"x">>)},
   maxPrice : {None, Some(<<"0">>), Some(<<"1">>), Some(<<"x">>)},
   sort : {None},
   page : {None},
   limit : {None, Some(<<"1">>), Some(<<"1", "0", "1">>)}]

\* products are stored, then listed under price bounds
NextPrice ==
  \/ lq = IdleList /\ \E data \in PriceBodies : ProductsPost(1, data, <<>>, "valid")
  \/ lq = IdleList /\ \E id \in ProductIds, a \in {Some(TRUE), Some(FALSE)} :
                        ProductsPatchStatus(id, a, "valid")
  \/ lq = IdleList /\ \E q \in PriceQueries : ProductsGet(q)
  \/ ProductsGetCount

InitPrice ==
  InitStores /\ jwtSecretSet = TRUE /\ variant \in {"local", "cloudinary"} /\ env = Hosted

SpecPrice == InitPrice /\ [][NextPrice]_vars

\* ------------------------------------------- submissions with attachments
\* the attachments of one request: files 1..n in the order they were sent
FileLists == {[i \in 1..n |-> i] : n \in 0..MaxFiles}

\* one multipart body, sent with and without attachments
UploadBodies ==
  {[name |-> <<"a">>, slug |-> Str_s1, price |-> 1, categories |-> <<>>,
    tags |-> AbsentField, is_active |-> None]}

NextIngest ==
  \/ \E data \in UploadBodies, files \in FileLists : ProductsPost(1, data, files, "valid")
  \/ \E k \in 1..MaxFiles, success \in BOOLEAN : ProductsUpload(1, k, success)
  \/ ProductsPostSave(1)
  \/ \E id \in ProductIds, files \in FileLists :
       /\ id \in DOMAIN products => Len(products[id].images) + Len(files) <= MaxImages
       /\ ProductsPut(1, id, NoUpdate, files, "valid")
  \/ ProductsPutWrite(1)

InitIngest ==
  InitStores /\ jwtSecretSet = TRUE /\ variant \in {"local", "cloudinary"} /\ env \in Envs

SpecIngest == InitIngest /\ [][NextIngest]_vars

\* ------------------------------------------------ text fields and slugs
Text_t == <<"[", Quote, "t", Quote, "]">>
Text_cut == <<"[", Quote, "t", Quote>>

\* multipart bodies: two slugs; tags absent, as a JSON text, as a cut-off text
IngestBodies ==
  [name : {<<"a">>}, slug : {Str_s1, Str_s2}, price : {1}, categories : {<<>>},
   tags : {AbsentField, TextField(Text_t), TextField(Text_cut)}, is_active : {None}]

IngestUpdates ==
  {[NoUpdate EXCEPT !.price = Some(2)], [NoUpdate EXCEPT !.slug = Some(Str_s1)],
   [NoUpdate EXCEPT !.slug = Some(Str_s2)]}

NextFields ==
  \/ \E data \in IngestBodies : ProductsPost(1, data, <<>>, "valid")
  \/ \E id \in ProductIds, data \in IngestUpdates : ProductsPut(1, id, data, <<>>, "valid")
  \/ \E id \in ProductIds : ProductsDelete(1, id, "valid")

InitFields == InitStores /\ jwtSecretSet = TRUE /\ variant = "local" /\ env \in Envs

SpecFields == InitFields /\ [][NextFields]_vars

\* ------------------------------------------------- product time stamps
\* update bodies: a price change, and a body that carries its own updated_at
StampUpdates == {[NoUpdate EXCEPT !.price = Some(2)], [NoUpdate EXCEPT !.updated_at = Some(0)]}

NextStamp ==
  \/ \E data \in ProductBodies : ProductsPost(1, data, <<>>, "valid")
  \/ \E id \in ProductIds, data \in StampUpdates : ProductsPut(1, id, data, <<>>, "valid")
  \/ ProductsPutWrite(1)
  \/ \E id \in ProductIds, a \in {Some(TRUE), Some(FALSE)} :
       ProductsPatchStatus(id, a, "valid")
  \/ Tick

SpecStamp == Init /\ [][NextStamp]_vars

\* -------------------------------------- orders beside product changes
NextSnapshot ==
  \/ \E p \in {1} : cr[p] = Idle /\ \E body \in RaceBodies : OrdersPost(p, body)
  \/ \E p \in {1} : OrderPreSaveCount(p) \/ OrderPreSaveAssign(p) \/ OrderInsert(p)
                      \/ OrderFindById(p)
  \/ \E data \in ProductBodies : ProductsPost(1, data, <<>>, "valid")
  \/ \E id \in ProductIds, data \in PutBodies : ProductsPut(1, id, data, <<>>, "valid")
  \/ \E id \in ProductIds : ProductsDelete(1, id, "valid")
  \/ \E id \in OrderIds : OrdersGetById(id)

InitSnapshot == InitStores /\ jwtSecretSet = TRUE /\ variant = "local" /\ env = Hosted

SpecSnapshot == InitSnapshot /\ [][NextSnapshot]_vars

\* ------------------------------------- concurrent product write requests
\* operators' creates, updates, deletes and activation changes in flight
\* together against the cloudinary routes
NextWrites ==
  \/ \E w \in Writers, data \in ProductBodies : ProductsPost(w, data, <<>>, "valid")
  \/ \E w \in Writers, id \in ProductIds, data \in PutBodies :
       ProductsPut(w, id, data, <<>>, "valid")
  \/ \E w \in Writers : ProductsPutWrite(w)
  \/ \E w \in Writers, id \in ProductIds : ProductsDelete(w, id, "valid")
  \/ \E w \in Writers : ProductsDeleteWrite(w)
  \/ \E id \in ProductIds, a \in {Some(TRUE), Some(FALSE)} :
       ProductsPatchStatus(id, a, "valid")

SpecWrites == Init /\ [][NextWrites]_vars

\* ------------------------------------------ requests and the connection
NextConnect ==
  \/ \E c \in Clients : ensureDbConnection(c)
  \/ \E ok \in BOOLEAN : ConnectAnswered(ok)
  \/ \E c \in Clients : connectDB_Resumes(c)
  \/ \E c \in Clients : connectDB_Fails(c)
  \/ DisconnectAnswered
  \/ \E c \in Clients : DisconnectResolved(c)
  \/ \E c \in Clients : connectDB_Reconnects(c)
  \/ \E c \in Clients : RouteAnswered(c)

\* any of the three versions of the connection code
InitConnect ==
  /\ orders = <<>> /\ nextOrderId = 1 /\ now = 1 /\ cr = [p \in Creators |-> Idle]
  /\ createdLog = <<>> /\ last = NoRequest /\ products = <<>> /\ nextProductId = 1
  /\ pw = [w \in Writers |-> NoProductRequest] /\ lq = IdleList /\ imageStore = {}
  /\ fetched = NoFetch /\ jwtSecretSet = TRUE /\ variant = "cloudinary" /\ env = Hosted
  /\ entry \in Entries
  /\ db = NoConnection
  /\ mw = [c \in Clients |-> NoClient]
  /\ admins = <<>>
  /\ reg = [c \in Clients |-> NoRegistration]

SpecConnect == InitConnect /\ [][NextConnect]_vars

\* ------------------------------------------ concurrent registrations
\* registration bodies: two usernames, two emails, the password given or not
RegisterBodies ==
  [username : {<<"u">>, <<"v">>}, password : {<<>>, <<"p">>}, email : {<<"e">>, <<"f">>}]

NextRegister ==
  \/ \E c \in Clients, body \in RegisterBodies : AuthRegister(c, body)
  \/ \E c \in Clients : AuthRegisterFound(c)
  \/ \E c \in Clients : AuthRegisterSave(c)

SpecRegister == Init /\ [][NextRegister]_vars

\* ------------------------------------------- paging through the catalog
\* list requests that differ in page, sort and limit only
PageQueries ==
  [category : {None}, search : {None}, minPrice : {None}, maxPrice : {None},
   sort : {None, Some(<<"p", "r", "i", "c", "e", "-", "l", "o", "w">>)},
   page : {None, Some(<<"1">>), Some(<<"2">>)},
   limit : {None, Some(<<"1">>)}]

\* products are written, then the store is left alone and list requests
\* follow one another
NextPages ==
  \/ lq = IdleList /\ \E data \in ProductBodies : ProductsPost(1, data, <<>>, "valid")
  \/ lq = IdleList /\ \E id \in ProductIds, data \in PutBodies :
                        ProductsPut(1, id, data, <<>>, "valid")
  \/ lq = IdleList /\ ProductsPutWrite(1)
  \/ pw[1].pc = "idle" /\ \E q \in PageQueries : ProductsGet(q)
  \/ ProductsGetCount

SpecPages == InitPrice /\ [][NextPages]_vars

\* --------------------------------------------------- pagination metadata
\* list requests for pages 1..3 with limits 1, 2 and the default
MetaQueries ==
  [category : {None}, search : {None}, minPrice : {None}, maxPrice : {None},
   sort : {None},
   page : {None, Some(<<"1">>), Some(<<"2">>), Some(<<"3">>)},
   limit : {None, Some(<<"1">>), Some(<<"2">>)}]

\* products are written, then one list request runs against the store
NextMeta ==
  \/ lq = IdleList /\ \E data \in PriceBodies : ProductsPost(1, data, <<>>, "valid")
  \/ lq = IdleList /\ \E id \in ProductIds : ProductsDelete(1, id, "valid")
  \/ lq = IdleList /\ ProductsDeleteWrite(1)
  \/ lq = IdleList /\ pw[1].pc = "idle" /\ \E q \in MetaQueries : ProductsGet(q)
  \/ ProductsGetCount

SpecMeta == InitPrice /\ [][NextMeta]_vars

\* ------------------------------------------- bodies that name a status
\* valid creation bodies that also carry a status and an order number
EnterBodies ==
  {[b EXCEPT !.status = st, !.orderNumber = n] :
     b \in RaceBodies, st \in {Undef, "Delivered"}, n \in {<<>>, <<"X">>}}

NextEnter ==
  \/ \E p \in Creators, body \in EnterBodies : OrdersPost(p, body)
  \/ \E p \in Creators : OrderPreSaveCount(p)
  \/ \E p \in Creators : OrderPreSaveAssign(p)
  \/ \E p \in Creators : OrderInsert(p)
  \/ \E p \in Creators : OrderFindById(p)
  \/ Tick

SpecEnter == Init /\ [][NextEnter]_vars

\* --------------------------------- concurrent updates with attachments
\* one product is stored; each request in flight attaches one file of its
\* own, to a product that has fewer images than there are requests
NextAttach ==
  \/ \E data \in UploadBodies : ProductsPost(1, data, <<>>, "valid")
  \/ \E w \in Writers, id \in ProductIds :
       /\ id \in DOMAIN products => Len(products[id].images) < NumWriters
       /\ ProductsPut(w, id, NoUpdate, <<w>>, "valid")
  \/ \E w \in Writers, success \in BOOLEAN : ProductsUpload(w, w, success)
  \/ \E w \in Writers : ProductsPutWrite(w)

SpecAttach == Init /\ [][NextAttach]_vars

\* ------------------------------------------- the two status entry points
\* orders are created and moved through statuses by an authenticated
\* operator, through either route
NextStatus ==
  \/ \E p \in {1} : cr[p] = Idle /\ \E body \in RaceBodies : OrdersPost(p, body)
  \/ \E p \in {1} : OrderPreSaveCount(p) \/ OrderPreSaveAssign(p) \/ OrderInsert(p)
                      \/ OrderFindById(p)
  \/ \E id \in OrderIds, status \in ReqStatuses : OrdersPatchStatus(id, status, "valid")
  \/ \E id \in OrderIds, status \in ReqStatuses : AdminOrdersPatchStatus(id, status, "valid")

SpecStatus == Init /\ [][NextStatus]_vars

\* --------------------------------------- writes during a list request
\* list requests with the default limit and with limit 1
DriftQueries ==
  [category : {None}, search : {None}, minPrice : {None}, maxPrice : {None},
   sort : {None}, page : {None}, limit : {None, Some(<<"1">>)}]

\* product creates, deletes and activation changes at any moment, also
\* between the two store calls of a list request
NextDrift ==
  \/ \E data \in PriceBodies : ProductsPost(1, data, <<>>, "valid")
  \/ \E id \in ProductIds : ProductsDelete(1, id, "valid")
  \/ ProductsDeleteWrite(1)
  \/ \E id \in ProductIds, a \in {Some(TRUE), Some(FALSE)} :
       ProductsPatchStatus(id, a, "valid")
  \/ \E q \in DriftQueries : ProductsGet(q)
  \/ ProductsGetCount

SpecDrift == InitPrice /\ [][NextDrift]_vars

\* ------------------------------------------ page and limit as sent
\* page and limit missing, zero, negative, not a number, and well-formed
RawQueries ==
  [category : {None}, search : {None}, minPrice : {None}, maxPrice : {None},
   sort : {None},
   page : {None, Some(<<"0">>), Some(<<"-", "1">>), Some(<<"x">>), Some(<<"2">>)},
   limit : {None, Some(<<"0">>), Some(<<"-", "1">>), Some(<<"x">>), Some(<<"1">>)}]

NextRaw ==
  \/ lq = IdleList /\ \E data \in PriceBodies : ProductsPost(1, data, <<>>, "valid")
  \/ lq = IdleList /\ \E q \in RawQueries : ProductsGet(q)
  \/ ProductsGetCount

SpecRaw == InitPrice /\ [][NextRaw]_vars

\* statuses asked of the status routes: one both routes accept, one only the
\* orders route accepts, one neither accepts
AuthStatuses == {"Dispatched", "Cancelled", "Refunded"}

\* requests to the mutating routes carrying every kind of bearer token
NextAuth ==
  \/ \E p \in {1} : cr[p] = Idle /\ \E body \in RaceBodies : OrdersPost(p, body)
  \/ \E p \in {1} : OrderPreSaveCount(p) \/ OrderPreSaveAssign(p) \/ OrderInsert(p)
                      \/ OrderFindById(p)
  \/ \E id \in OrderIds, status \in AuthStatuses, token \in Tokens :
       OrdersPatchStatus(id, status, token)
  \/ \E id \in OrderIds, status \in AuthStatuses, token \in Tokens :
       AdminOrdersPatchStatus(id, status, token)
  \/ \E data \in ProductBodies : ProductsPost(1, data, <<>>, "valid")
  \/ \E id \in ProductIds, data \in PutBodies, token \in Tokens : ProductsPut(1, id, data, <<>>, token)
  \/ \E id \in ProductIds, token \in Tokens : ProductsDelete(1, id, token)

SpecAuth == InitAuth /\ [][NextAuth]_vars

\* ================================================================ claims

\* position of the last "-" of a string, 0 when there is none
RECURSIVE LastDash(_, _)
LastDash(s, i) == IF i = 0 THEN 0 ELSE IF s[i] = "-" THEN i ELSE LastDash(s, i - 1)

\* the sequence component of an order number: the digits after its last "-"
SeqComponent(orderNumber) ==
  ParseNat(SubSeq(orderNumber, LastDash(orderNumber, Len(orderNumber)) + 1, Len(orderNumber)), 0)

\* C1: under every interleaving of concurrent order creations, the order
\* numbers of the orders that result (the persisted orders) are pairwise
\* distinct.
C1_PairwiseDistinct ==
  \A a \in DOMAIN orders : \A b \in DOMAIN orders :
    a # b => orders[a].orderNumber # orders[b].orderNumber

\* two creations ran concurrently (both read the same count before either
\* insert) and both orders were persisted and answered with 201
C1_Witness ==
  \E p \in Creators : \E q \in Creators :
    /\ p # q
    /\ cr[p].pc = "idle" /\ cr[p].code = 201
    /\ cr[q].pc = "idle" /\ cr[q].code = 201
    /\ cr[p].count = cr[q].count
    /\ cr[p].doc.id \in DOMAIN orders /\ cr[q].doc.id \in DOMAIN orders

LegalTransitions ==
  {<<"Pending", "Dispatched">>, <<"Dispatched", "Delivered">>,
   <<"Pending", "Cancelled">>, <<"Dispatched", "Cancelled">>}

StatusRoutes == {"PATCH /orders/:id/status", "PATCH /admin/orders/:id/status"}

\* C2: a status update of an existing order is accepted only when
\* (current, requested) is one of the four legal transitions; any other pair
\* is rejected.
C2_OnlyLegalTransitionsAccepted ==
  (last.route \in StatusRoutes /\ last.prev # Undef /\ last.code = 200)
    => <<last.prev, last.status>> \in LegalTransitions

\* C4: the order number of every persisted order equals the one it was
\* inserted with, whatever status updates followed.
C4_OrderNumberImmutable ==
  \A k \in 1..Len(createdLog) :
    createdLog[k][1] \in DOMAIN orders
      => orders[createdLog[k][1]].orderNumber = createdLog[k][2]

\* an order that has been through two status updates still carries its number
C4_Witness ==
  \E k \in 1..Len(createdLog) :
    /\ createdLog[k][1] \in DOMAIN orders
    /\ orders[createdLog[k][1]].status = "Delivered"
    /\ orders[createdLog[k][1]].orderNumber = createdLog[k][2]
    /\ last.route \in StatusRoutes /\ last.code = 200

\* C5: the sequence component of the number given to a later created order
\* is strictly greater than that of every earlier created order.
C5_MonotonicSequence ==
  \A i \in 1..Len(createdLog) : \A j \in 1..Len(createdLog) :
    i < j => SeqComponent(createdLog[j][2]) > SeqComponent(createdLog[i][2])

\* the numbered checks of order creation that a request body violates
C6_Violated(b) ==
  {k \in 1..4 :
     \/ k = 1 /\ (b.customer = None
                  \/ \E f \in {b.customer[1].name, b.customer[1].email, b.customer[1].phone} :
                       Len(f) = 0)
     \/ k = 2 /\ (b.shippingAddress = None
                  \/ \E f \in {b.shippingAddress[1].street, b.shippingAddress[1].city,
                               b.shippingAddress[1].state, b.shippingAddress[1].zipCode} :
                       Len(f) = 0)
     \/ k = 3 /\ (b.items.type # "array" \/ Len(b.items.elems) < 1)
     \/ k = 4 /\ (b.totalAmount = None \/ b.totalAmount[1] < 1)}

C6_Message == <<MsgCustomer, MsgShipping, MsgItems, MsgTotal>>

C6_First(S) == CHOOSE k \in S : \A j \in S : k <= j

\* C6: a creation request that violates several of the four checks is
\* answered with the error of the lowest-numbered violated check, and one that
\* violates none is answered with none of the four errors.
C6_FirstFailureWins ==
  (cr[1].pc = "idle" /\ cr[1].code # 0)
    => IF C6_Violated(cr[1].body) # {}
         THEN cr[1].code = 400
              /\ cr[1].message = C6_Message[C6_First(C6_Violated(cr[1].body))]
         ELSE \A k \in 1..4 : cr[1].message # C6_Message[k]

\* a request violating checks 2 and 4 (and not 1) was answered with the error of 2
C6_Witness ==
  /\ cr[1].pc = "idle" /\ cr[1].code = 400
  /\ {2, 4} \subseteq C6_Violated(cr[1].body)
  /\ 1 \notin C6_Violated(cr[1].body)
  /\ cr[1].message = MsgShipping

\* a body that is invalid: one of the four checks fails, an item has
\* quantity < 1, or a required field (subtotal, an item's name) is missing
C7_Invalid(b) ==
  \/ C6_Violated(b) # {}
  \/ \E i \in 1..Len(b.items.elems) :
       b.items.elems[i].quantity < 1 \/ Len(b.items.elems[i].productName) = 0
  \/ b.subtotal = None

\* C7: an invalid creation request is answered with a 400-class validation
\* error and its order is not persisted.
C7_InvalidAnswered400 ==
  (cr[1].pc = "idle" /\ cr[1].code # 0 /\ C7_Invalid(cr[1].body))
    => (cr[1].code \in 400..499 /\ cr[1].doc.id \notin DOMAIN orders)

\* C8: every order that creation persists satisfies
\* totalAmount = subtotal + shippingCost + tax.
C8_TotalIsSum ==
  \A id \in DOMAIN orders :
    orders[id].totalAmount[1]
      = orders[id].subtotal[1] + orders[id].shippingCost + orders[id].tax

ProtectedRoutes ==
  {"PUT /products/:id", "DELETE /products/:id",
   "PATCH /orders/:id/status", "PATCH /admin/orders/:id/status"}

\* C3: a product update, product delete or order status transition request
\* whose bearer token is missing, invalid or expired is answered 401 and
\* changes neither the Product nor the Order store.
C3_Unauthenticated401 ==
  [][(last' # last /\ last'.route \in ProtectedRoutes /\ last'.token # "valid")
       => (last'.code = 401 /\ products' = products /\ orders' = orders)]_vars

\* C9: no product with is_active = false appears in the page the public
\* catalog list returns, and none is counted in pagination.total.
C9_NoInactiveListed ==
  lq.code = 200 =>
    /\ \A i \in 1..Len(lq.page) : lq.page[i].is_active
    /\ lq.total <= Cardinality({id \in DOMAIN products : products[id].is_active})

\* C10: for every valid page >= 1 and limit >= 1, pagination.total equals the
\* number of all stored products that match the predicate of the page query,
\* whatever page and limit are.
C10_TotalCountsAllMatches ==
  (lq.code = 200 /\ IsNum(PageOf(lq.q)) /\ PageOf(lq.q).val >= 1
     /\ IsNum(LimitOf(lq.q)) /\ LimitOf(lq.q).val >= 1)
    => lq.total = Cardinality({id \in DOMAIN products : Matches(products[id], lq.filter)})

\* a second page of one product was returned while two products match
C10_Witness ==
  /\ lq.code = 200
  /\ PageOf(lq.q) = Num(2) /\ LimitOf(lq.q) = Num(1)
  /\ Len(lq.page) = 1
  /\ lq.total = 2
  /\ lq.filter.gte # None

\* C11: a client-supplied limit above the maximum (100) is clamped: the
\* request succeeds and the cursor never delivers more than the maximum
\* number of products.
C11_LimitClamped ==
  (lq.q.limit # None /\ IsNum(parseInt(lq.q.limit[1])) /\ lq.code # 0
     /\ parseInt(lq.q.limit[1]).val > 100 /\ ~CastFails(lq.filter))
    => (lq.code = 200 /\ CursorLimit(lq.q).val <= 100)

\* a price bound that is given, not empty, and not a decimal numeral
C12_Malformed(param) ==
  /\ Truthy(param)
  /\ \E i \in 1..Len(param[1]) : ~IsDigit(param[1][i])

\* C12: a list request whose minPrice or maxPrice is not a well-formed number
\* is answered with a validation error (a 4xx), never with a success.
C12_MalformedRejected ==
  (lq.code # 0 /\ (C12_Malformed(lq.q.minPrice) \/ C12_Malformed(lq.q.maxPrice)))
    => lq.code \in 400..499

\* C13: with minPrice = maxPrice = v (v = 0 included) and a limit covering
\* all matches, the list returns exactly the active products priced v.
C13_InclusiveBounds ==
  (/\ lq.code = 200
   /\ Truthy(lq.q.minPrice) /\ lq.q.maxPrice = lq.q.minPrice
   /\ ~C12_Malformed(lq.q.minPrice)
   /\ lq.q.category = None /\ lq.q.search = None /\ lq.q.page = None
   /\ LimitOf(lq.q).val >= Cardinality(DOMAIN products))
    => /\ {lq.page[i].id : i \in 1..Len(lq.page)}
            = {id \in DOMAIN products :
                 products[id].is_active
                   /\ products[id].price = parseFloat(lq.q.minPrice[1]).val}
       /\ Len(lq.page) = lq.total

\* the bounds 0..0 returned the active product priced 0 and left out an
\* inactive product priced 0
C13_Witness ==
  /\ lq.code = 200
  /\ lq.q.minPrice = Some(<<"0">>) /\ lq.q.maxPrice = Some(<<"0">>)
  /\ lq.q.limit = None
  /\ Len(lq.page) = 1 /\ lq.page[1].price = 0
  /\ \E id \in DOMAIN products : ~products[id].is_active /\ products[id].price = 0

\* a POST with attachments ends and one of its uploads had failed
C14_EndsWithFailure ==
  /\ pw[1].route = "POST /products" /\ pw'[1].pc = "idle"
  /\ \/ pw[1].pc = "upload"
     \/ pw[1].pc = "save" /\ pw[1].ok # AllOf(pw[1].files)

\* C14: in hosted mode, when some uploads of a submission fail the request
\* still succeeds and the stored images are exactly the URLs of the uploads
\* that succeeded, in attachment order.
C14_FailedUploadsSkipped ==
  [][(C14_EndsWithFailure /\ ~DuplicateSlug(products, nextProductId, pw[1].data.slug))
       => /\ last'.code = 201
          /\ nextProductId \in DOMAIN products'
          /\ products'[nextProductId].images = UrlsOf("hosted", pw[1].files, pw[1].ok)]_vars

\* C15: every URL in a stored product's images list came from an image store
\* operation (hosted upload or disk write) that completed successfully.
C15_ImagesWereStored ==
  \A id \in DOMAIN products :
    \A i \in 1..Len(products[id].images) : products[id].images[i] \in imageStore

\* C16: an update with new attachments leaves the previous images in place,
\* in order, followed by the new URLs.
C16_ImagesAppended ==
  [][(/\ pw[1].route = "PUT /products/:id" /\ pw[1].pc = "update" /\ pw'[1].pc = "idle"
      /\ pw[1].files # <<>> /\ pw[1].id \in DOMAIN products /\ last'.code = 200)
       => products'[pw[1].id].images
            = products[pw[1].id].images \o UrlsOf("hosted", pw[1].files, pw[1].ok)]_vars

\* C17: when the tags text of a submission fails to parse, the submission
\* still succeeds and the stored product has the schema default (the empty
\* list) for tags.
C17_UnparsedFieldAbsent ==
  [][\A data \in IngestBodies :
       (/\ variant = "local"
        /\ ProductsPost(1, data, <<>>, "valid")
        /\ data.tags.kind = "string" /\ ~JsonParse(data.tags.val).ok
        /\ ~DuplicateSlug(products, nextProductId, data.slug))
         => /\ last'.code = 201
            /\ products'[nextProductId].tags = <<>>]_vars

\* C18: no two stored products share a slug, and an update (or create) that
\* would give a product a slug another product has is answered with the
\* duplicate-slug error (400) and leaves the store unchanged.
C18_DuplicateSlugRejected ==
  [][/\ \A i, j \in DOMAIN products' :
          i # j => products'[i].slug # products'[j].slug
     /\ \A id \in ProductIds, data \in IngestUpdates :
          (/\ variant = "local"
           /\ ProductsPut(1, id, data, <<>>, "valid")
           /\ id \in DOMAIN products
           /\ data.slug # None /\ DuplicateSlug(products, id, data.slug[1]))
            => (last'.code = 400 /\ products' = products)
     /\ \A data \in IngestBodies :
          (/\ variant = "local"
           /\ ProductsPost(1, data, <<>>, "valid")
           /\ DuplicateSlug(products, nextProductId, data.slug))
            => (last'.code = 400 /\ products' = products)]_vars

\* C19: every mutation of a product (create, PUT, PATCH status) leaves its
\* updated_at at the time of that mutation.
C19_UpdatedAtRewritten ==
  [][\A id \in DOMAIN products' :
       (id \notin DOMAIN products \/ products'[id] # products[id])
         => products'[id].updated_at = now]_vars

\* the paths of an order item captured at order time
C20_Snapshot(it) ==
  <<it.productName, it.price, it.selectedSize, it.selectedColor, it.quantity>>

C21_SuccessMeansWritten ==
  [][\A w \in Writers :
       (pw[w].pc = "update" /\ pw'[w].pc = "idle")
         => /\ last'.code = 200
                => (pw[w].id \in DOMAIN products'
                    /\ products'[pw[w].id] = ApplyUpdate(products'[pw[w].id], pw[w].data))
            /\ pw[w].id \notin DOMAIN products => last'.code = 404]_vars

\* request c calls mongoose.disconnect() in this step
C22_Disconnects(c) == mw[c].pc # "awaitDisconnect" /\ mw'[c].pc = "awaitDisconnect"

\* C22: at most one connect is in flight, no request disconnects a
\* connection that is connecting or that another request is using, and a
\* request that finds the connection established goes on without touching it.
C22_ConnectionShared ==
  [][/\ db'.opening <= 1
     /\ \A c \in Clients :
          C22_Disconnects(c)
            => /\ db.readyState # Connecting
               /\ \A d \in Clients \ {c} : mw[d].pc \notin {"awaitConnect", "connected", "route"}
     /\ \A c \in Clients :
          (GoodConnection /\ mw[c].pc = "idle" /\ mw'[c].pc # "idle")
            => (mw'[c].pc = "route" /\ db' = db)]_vars

\* C25: no two stored admins share a username or an email, and a
\* registration whose insert is refused because another registration took the
\* username or email first is answered with a conflict or validation failure
\* (400 or 409) and stores nothing.
C25_RegistrationRace ==
  [][/\ \A i, j \in 1..Len(admins') :
          i # j => (admins'[i].username # admins'[j].username
                    /\ admins'[i].email # admins'[j].email)
     /\ \A c \in Clients :
          (reg[c].pc = "save" /\ reg'[c].pc = "idle" /\ AdminExists(admins, reg[c].body))
            => (reg'[c].code \in {400, 409} /\ admins' = admins)]_vars

\* C23: against an unchanged store, two list requests with the same filter,
\* sort and limit (>= 1) and different pages (>= 1) return no product in
\* common, as a total deterministic order with ties broken by creation
\* order requires.
C23_PagesDisjoint ==
  [][(/\ lq.pc = "idle" /\ lq.code = 200 /\ lq'.pc = "count"
      /\ lq'.filter = lq.filter /\ lq'.q.sort = lq.q.sort
      /\ LimitOf(lq'.q) = LimitOf(lq.q) /\ IsNum(LimitOf(lq.q)) /\ LimitOf(lq.q).val >= 1
      /\ IsNum(PageOf(lq.q)) /\ PageOf(lq.q).val >= 1
      /\ IsNum(PageOf(lq'.q)) /\ PageOf(lq'.q).val >= 1
      /\ PageOf(lq'.q) # PageOf(lq.q)
      /\ products' = products)
       => \A i \in 1..Len(lq.page) : \A j \in 1..Len(lq'.page) :
            lq.page[i].id # lq'.page[j].id]_vars

\* the least n with n * limit >= total
C24_Ceil(total, limit) ==
  CHOOSE n \in 0..total :
    n * limit >= total /\ \A m \in 0..total : m * limit >= total => n <= m

\* C24: for page >= 1 and limit >= 1 the response has
\* totalPages = ceil(total / limit), hasPrev = (page > 1),
\* hasNext = (page * limit < total), and the page holds the matches from
\* position (page - 1) * limit + 1 on, at most limit of them.
C24_PaginationMetadata ==
  (/\ lq.code = 200
   /\ IsNum(PageOf(lq.q)) /\ PageOf(lq.q).val >= 1
   /\ IsNum(LimitOf(lq.q)) /\ LimitOf(lq.q).val >= 1)
    => LET page == PageOf(lq.q).val
           limit == LimitOf(lq.q).val
           rest == lq.total - (page - 1) * limit
       IN /\ lq.totalPages = Num(C24_Ceil(lq.total, limit))
          /\ lq.hasPrev = (page > 1)
          /\ lq.hasNext = (page * limit < lq.total)
          /\ Len(lq.page) = IF rest < 0 THEN 0 ELSE IF rest > limit THEN limit ELSE rest

\* page 1 of two was answered: one product on it, one beyond it
C24_Witness ==
  /\ lq.code = 200
  /\ lq.q.page = Some(<<"1">>) /\ lq.q.limit = Some(<<"1">>)
  /\ lq.total = 2
  /\ lq.hasNext /\ ~lq.hasPrev
  /\ lq.totalPages = Num(2)
  /\ Len(lq.page) = 1

\* C26: an order that creation has just persisted has status Pending and an
\* order number made by the generator, whatever the request body carried.
C26_EntersPending ==
  [][\A p \in Creators :
       (cr[p].pc = "insert" /\ cr'[p].pc = "findById")
         => /\ orders'[cr[p].doc.id].status = "Pending"
            /\ \E ts \in 1..MaxClock, count \in 0..MaxOrders :
                 orders'[cr[p].doc.id].orderNumber = FormatOrderNumber(ts, count)]_vars

\* C27: an update with attachments that completes keeps every image the
\* product has at the moment of its write, the images that a concurrent
\* update added since this one read the product included, and adds its own.
C27_NoLostImages ==
  [][\A w \in Writers :
       (/\ pw[w].pc = "update" /\ pw'[w].pc = "idle"
        /\ pw[w].id \in DOMAIN products /\ last'.code = 200)
         => /\ \A i \in 1..Len(products[pw[w].id].images) :
                 \E j \in 1..Len(products'[pw[w].id].images) :
                   products'[pw[w].id].images[j] = products[pw[w].id].images[i]
            /\ \A k \in pw[w].ok :
                 \E j \in 1..Len(products'[pw[w].id].images) :
                   products'[pw[w].id].images[j] = <<"hosted", k>>]_vars

\* C28: in every state, for every order id and requested status, PATCH
\* /orders/:id/status accepts (200) exactly when PATCH /admin/orders/:id/status
\* accepts, and when they accept both leave the same Order store.
C28_EntryPointsEquivalent ==
  \A id \in OrderIds, status \in ReqStatuses :
    LET after == findByIdAndUpdate(orders, id, status)
        viaOrders == ENABLED (OrdersPatchStatus(id, status, "valid") /\ last'.code = 200
                                /\ orders' = after)
        viaAdmin == ENABLED (AdminOrdersPatchStatus(id, status, "valid") /\ last'.code = 200
                               /\ orders' = after)
    IN viaOrders <=> viaAdmin

\* C29: in every list response the number of returned products does not
\* exceed pagination.total, and on page 1 with total <= limit it equals
\* total, also when product writes fall between the page query and the count.
C29_PageMatchesTotal ==
  (lq.code = 200 /\ IsNum(PageOf(lq.q)) /\ IsNum(LimitOf(lq.q)) /\ LimitOf(lq.q).val >= 1)
    => /\ Len(lq.page) <= lq.total
       /\ (PageOf(lq.q).val = 1 /\ lq.total <= LimitOf(lq.q).val)
            => Len(lq.page) = lq.total

\* C30: whatever page and limit strings the client sends, the store query
\* is issued with a non-negative integer skip and a positive integer limit,
\* and the response's currentPage and totalPages are integers.
C30_SanitizedPaging ==
  lq.pc = "idle" /\ lq.code # 0
    => /\ IsNum(SkipOf(lq.q)) /\ SkipOf(lq.q).val >= 0
       /\ IsNum(CursorLimit(lq.q)) /\ CursorLimit(lq.q).val >= 1
       /\ lq.code = 200 => (IsNum(lq.currentPage) /\ IsNum(lq.totalPages))

====
